---- MODULE Spec2Model ----
(***************************************************************************)
(* A model of scripts/s4nftboost/{base,edu}/filter_holders.py: main()      *)
(* loads the NFT holder addresses, joins the leaderboard against them row  *)
(* by row, and writes the matched rows with a 10% airdrop amount.          *)
(*                                                                         *)
(* Text is a sequence of one-character strings; a column name is a text of *)
(* one token, so that a byte-order mark that survives decoding is a token  *)
(* in front of the first column name.  A float that the program computes   *)
(* is an integer count of decimal units (see ParseFloat, Round).           *)
(***************************************************************************)
EXTENDS Integers, Sequences, FiniteSets, TLC

VARIABLES
    variant,          \* which of the two scripts runs: "base" or "edu"
    pc,               \* position of main()
    error,            \* the exception that ended the run, "none" otherwise
    openFiles,        \* the files whose handle is open
    reader,           \* the csv.DictReader of the open input file
    nft_holders,      \* set of lower-cased holder addresses
    matched_records,  \* list of {'Address', 'Airdrop_Amount'} records
    holdersColumn,    \* whether the header of the holders file has a HolderAddress column
    holderValues,     \* the HolderAddress values added from the holders file
    lbRows,           \* the row dicts the leaderboard reader has yielded
    outFile,          \* the output file on disk
    outFile0          \* the output file on disk before the run

vars == <<variant, pc, error, openFiles, reader, nft_holders,
          matched_records, holdersColumn, holderValues, lbRows, outFile, outFile0>>

----------------------------------------------------------------------------
(* Bounds of the model *)

MaxRefRows == 2      \* data rows read from the holders file
MaxLbRows == 2       \* data rows read from the leaderboard file
InDecimals == 4      \* decimal digits kept of a parsed value

----------------------------------------------------------------------------
(* Text *)

Range(s) == {s[i] : i \in DOMAIN s}

RECURSIVE Pow10(_)
Pow10(n) == IF n = 0 THEN 1 ELSE 10 * Pow10(n - 1)

DigitChars == <<"0", "1", "2", "3", "4", "5", "6", "7", "8", "9">>

IsDigit(c) == c \in Range(DigitChars)

DigitVal(c) == (CHOOSE i \in DOMAIN DigitChars : DigitChars[i] = c) - 1

\* str.lower() on one character
LowerChar(c) ==
    CASE c = "A" -> "a"
      [] c = "B" -> "b"
      [] OTHER -> c

\* str.lower()
Lower(s) == [i \in DOMAIN s |-> LowerChar(s[i])]

\* the value csv.DictReader gives a column the row is too short for (restval)
None == <<"<None>">>

BOM == "<U+FEFF>"

----------------------------------------------------------------------------
(* Configuration constants of the two scripts *)

nft_holders_file == "nftholders.csv"
leaderboard_file == "leaderboard.csv"
output_file == "nft_holders_airdrop_filtered.csv"

HolderAddress == <<"HolderAddress">>

\* the leaderboard column holding the address
AddressColumn(v) == IF v = "base" THEN <<"Address">> ELSE <<"HolderAddress">>

\* the leaderboard column holding the quantity / balance
ValueColumn(v) == IF v = "base" THEN <<"Quantity">> ELSE <<"Balance">>

fieldnames == <<<<"Address">>, <<"Airdrop_Amount">>>>

Ndigits == 3

----------------------------------------------------------------------------
(* Input files the model reads *)

RefAddresses == { <<>>, <<"a">>, <<"A">> }
LbAddresses == { <<"a">>, <<"A">>, <<"b">> }
Values == { <<"1", "0", "0">>, <<"2", ".", "3", "4", "5">>,
            <<"1", "2", ".", "3", "4", "5", "5">>, <<"N", "/", "A">> }
IdCell == <<"1">>

RefHeaders == { <<HolderAddress>>, <<<<"Id">>, HolderAddress>>, <<<<"Id">>>> }
LbHeaders(v) == { <<AddressColumn(v), ValueColumn(v)>>,
                  <<ValueColumn(v), AddressColumn(v)>> }

\* the cells a column of the given name may hold
CellsOf(name, v, addresses) ==
    IF name = <<"Id">> THEN {IdCell}
    ELSE IF name \in {<<"Quantity">>, <<"Balance">>} THEN Values
    ELSE addresses

\* the rows of n cells under the first n columns of the header
RECURSIVE RowsOfLen(_, _, _, _)
RowsOfLen(header, n, v, addresses) ==
    IF n = 0 THEN { <<>> }
    ELSE { Append(r, c) : r \in RowsOfLen(header, n - 1, v, addresses),
                          c \in CellsOf(header[n], v, addresses) }

\* the data rows of a file with this header: every column filled, or the row
\* cut short after at least one cell (csv.DictReader drops blank lines)
RowsOf(header, v, addresses) ==
    UNION { RowsOfLen(header, n, v, addresses) : n \in 1..Len(header) }

----------------------------------------------------------------------------
(* open(..., encoding) and csv.DictReader *)

\* The header as decoded: 'utf-8-sig' drops a leading byte-order mark, the
\* default encoding of open(path, 'r') keeps it as the first character of
\* the text, in front of the first column name.
Decode(bom, header, encoding) ==
    IF bom /\ encoding # "utf-8-sig"
    THEN <<<<BOM>> \o header[1]>> \o Tail(header)
    ELSE header

\* the dict csv.DictReader yields for a row of cells
DictRow(names, cells) ==
    [k \in Range(names) |->
        LET i == CHOOSE j \in DOMAIN names : names[j] = k
        IN  IF i <= Len(cells) THEN cells[i] ELSE None]

\* what row[key] gives: the cell, None for a short row, or a KeyError
KeyError == <<"<KeyError>">>
Subscript(row, key) == IF key \in DOMAIN row THEN row[key] ELSE KeyError

\* mutant: the test for the column is dropped
HasColumnAlways(row, key) == TRUE

\* key in row
HasColumn(row, key) == key \in DOMAIN row

NoReader == [file |-> "none", bom |-> FALSE, header |-> <<>>,
             fieldnames |-> <<>>, rows |-> <<>>]

----------------------------------------------------------------------------
(* float(), quantity * 0.1 and round(x, 3)                                 *)
(* A parsed value is the integer n standing for n / 10^InDecimals; the     *)
(* product by 0.1 is n / 10^(InDecimals+1); a rounded amount is the        *)
(* integer m standing for m / 10^Ndigits.                                  *)

IsNumeric(t) ==
    /\ t # None
    /\ \A i \in DOMAIN t : IsDigit(t[i]) \/ t[i] = "."
    /\ Cardinality({i \in DOMAIN t : t[i] = "."}) <= 1
    /\ \E i \in DOMAIN t : IsDigit(t[i])

RECURSIVE DigitsValue(_)
DigitsValue(t) ==
    IF t = <<>> THEN 0
    ELSE 10 * DigitsValue(SubSeq(t, 1, Len(t) - 1)) + DigitVal(t[Len(t)])

\* float(t) for a numeric t of at most InDecimals decimals
ParseFloat(t) ==
    LET dots == {i \in DOMAIN t : t[i] = "."}
        dot == IF dots = {} THEN Len(t) + 1 ELSE CHOOSE i \in dots : TRUE
        int == SubSeq(t, 1, dot - 1)
        frac == SubSeq(t, dot + 1, Len(t))
    IN  DigitsValue(int) * Pow10(InDecimals)
        + DigitsValue(frac) * Pow10(InDecimals - Len(frac))

\* mutant: the amount is cut to Ndigits decimals instead of rounded
RoundDown(n) == {n \div Pow10(InDecimals + 1 - Ndigits)}

\* round(n / 10^(InDecimals+1), Ndigits): the nearest multiple of 10^-Ndigits.
\* The product is a binary double: when the decimal value lies exactly
\* halfway, the double lies on one side or the other, and round() follows it.
Round(n) ==
    LET d == Pow10(InDecimals + 1 - Ndigits)
        q == n \div d
        r == n % d
    IN  IF 2 * r < d THEN {q}
        ELSE IF 2 * r > d THEN {q + 1}
        ELSE {q, q + 1}

\* the decimal digits of a natural number
RECURSIVE Digits(_)
Digits(n) ==
    IF n < 10 THEN <<DigitChars[n + 1]>>
    ELSE Append(Digits(n \div 10), DigitChars[(n % 10) + 1])

\* a text without its trailing "0" characters
RECURSIVE StripZeros(_)
StripZeros(t) ==
    IF t # <<>> /\ t[Len(t)] = "0" THEN StripZeros(SubSeq(t, 1, Len(t) - 1))
    ELSE t

\* n as exactly k digits
RECURSIVE Padded(_, _)
Padded(n, k) ==
    IF k = 0 THEN <<>>
    ELSE Append(Padded(n \div 10, k - 1), DigitChars[(n % 10) + 1])

\* str(x) of the float m / 10^Ndigits, as csv.DictWriter writes it
FormatFloat(m) ==
    LET unit == Pow10(Ndigits)
        frac == StripZeros(Padded(m % unit, Ndigits))
    IN  Digits(m \div unit) \o <<".">> \o (IF frac = <<>> THEN <<"0">> ELSE frac)

----------------------------------------------------------------------------
(* The output file *)

Absent == [exists |-> FALSE, lines |-> <<>>]

\* some earlier contents of the output file
OldContents ==
    [exists |-> TRUE,
     lines |-> << <<<<"Address">>, <<"Airdrop_Amount">>>>,
                  <<<<"b">>, <<"1", ".", "0">>>> >>]

\* open(output_file, 'w'): the file is created, or truncated
Truncated == [exists |-> TRUE, lines |-> <<>>]

\* the line csv.DictWriter writes for a record
RecordLine(rec) == <<rec.Address, FormatFloat(rec.Airdrop_Amount)>>

----------------------------------------------------------------------------
(* The run *)

Init ==
    /\ variant \in {"base", "edu"}
    /\ pc = "start"
    /\ error = "none"
    /\ openFiles = {}
    /\ reader = NoReader
    /\ nft_holders = {}
    /\ matched_records = <<>>
    /\ holdersColumn = "unread"
    /\ holderValues = {}
    /\ lbRows = <<>>
    /\ outFile0 \in {Absent, OldContents}
    /\ outFile = outFile0

\* mutant: the exception is swallowed and the run goes on
RaiseSwallowed(e) ==
    /\ pc' = pc
    /\ error' = error
    /\ openFiles' = openFiles
    /\ reader' = reader

\* an exception leaves main(): every `with` block it crosses closes its file
Raise(e) ==
    /\ pc' = "failed"
    /\ error' = e
    /\ openFiles' = {}
    /\ reader' = NoReader

\* the reader of a file just opened
NewReader(file, bom, header, encoding) ==
    [file |-> file, bom |-> bom, header |-> header,
     fieldnames |-> Decode(bom, header, encoding), rows |-> <<>>]

\* reader with one more row yielded
Advance(rd, cells) == [rd EXCEPT !.rows = Append(@, cells)]

\* mutant: the holder address is stored as spelled
AddHolderAsIs(holders, value) == holders \cup {value}

\* nft_holders.add(row['HolderAddress'].lower())
AddHolder(holders, value) == holders \cup {Lower(value)}

\* lines 12-14: the holders file is opened with the default encoding
OpenHolders ==
    /\ pc = "start"
    /\ \E bom \in BOOLEAN, header \in RefHeaders :
          /\ reader' = NewReader(nft_holders_file, bom, header, "default")
          /\ holdersColumn' = IF HolderAddress \in Range(header) THEN "present" ELSE "absent"
    /\ nft_holders' = {}
    /\ openFiles' = openFiles \cup {nft_holders_file}
    /\ pc' = "read_holders"
    /\ UNCHANGED <<variant, error, matched_records, holderValues, lbRows,
                   outFile, outFile0>>

\* line 13: the holders file does not exist or cannot be read
OpenHoldersFails ==
    /\ pc = "start"
    /\ Raise("FileNotFoundError")
    /\ UNCHANGED <<variant, nft_holders, matched_records, holdersColumn,
                   holderValues, lbRows, outFile, outFile0>>

\* lines 15-17: one pass of the loop over the holders file
ReadHolderRow ==
    /\ pc = "read_holders"
    /\ Len(reader.rows) < MaxRefRows
    /\ \E cells \in RowsOf(reader.header, variant, RefAddresses) :
          LET row == DictRow(reader.fieldnames, cells)
              value == Subscript(row, HolderAddress)
              Continue == /\ reader' = Advance(reader, cells)
                          /\ UNCHANGED <<pc, error, openFiles>>
          IN  IF ~HasColumn(row, HolderAddress)
              THEN Continue /\ UNCHANGED <<nft_holders, holderValues>>
              ELSE IF value = KeyError
              THEN Raise("KeyError") /\ UNCHANGED <<nft_holders, holderValues>>
              ELSE IF value = None
              THEN Raise("AttributeError") /\ UNCHANGED <<nft_holders, holderValues>>
              ELSE /\ Continue
                   /\ nft_holders' = AddHolder(nft_holders, value)
                   /\ holderValues' = holderValues \cup {value}
    /\ UNCHANGED <<variant, matched_records, holdersColumn, lbRows, outFile, outFile0>>

\* mutant: the holders file is left open
CloseHoldersLeaks ==
    /\ pc = "read_holders"
    /\ reader' = NoReader
    /\ openFiles' = openFiles
    /\ pc' = "holders_loaded"
    /\ UNCHANGED <<variant, error, nft_holders, matched_records, holdersColumn,
                   holderValues, lbRows, outFile, outFile0>>

\* lines 15-19: the holders file is exhausted, its `with` block ends
CloseHolders ==
    /\ pc = "read_holders"
    /\ reader' = NoReader
    /\ openFiles' = openFiles \ {nft_holders_file}
    /\ pc' = "holders_loaded"
    /\ UNCHANGED <<variant, error, nft_holders, matched_records, holdersColumn,
                   holderValues, lbRows, outFile, outFile0>>

\* mutant: the output file is opened before the leaderboard is read
OpenLeaderboardAfterOutput ==
    /\ pc = "holders_loaded"
    /\ matched_records' = <<>>
    /\ outFile' = Truncated
    /\ \E bom \in BOOLEAN, header \in LbHeaders(variant) :
          reader' = NewReader(leaderboard_file, bom, header, "utf-8-sig")
    /\ openFiles' = openFiles \cup {leaderboard_file}
    /\ pc' = "read_leaderboard"
    /\ UNCHANGED <<variant, error, nft_holders, holdersColumn, holderValues,
                   lbRows, outFile0>>

\* lines 22-24: the leaderboard is opened with encoding='utf-8-sig'
OpenLeaderboard ==
    /\ pc = "holders_loaded"
    /\ matched_records' = <<>>
    /\ \E bom \in BOOLEAN, header \in LbHeaders(variant) :
          reader' = NewReader(leaderboard_file, bom, header, "utf-8-sig")
    /\ openFiles' = openFiles \cup {leaderboard_file}
    /\ pc' = "read_leaderboard"
    /\ UNCHANGED <<variant, error, nft_holders, holdersColumn, holderValues,
                   lbRows, outFile, outFile0>>

\* line 23: the leaderboard does not exist or cannot be read
OpenLeaderboardFails ==
    /\ pc = "holders_loaded"
    /\ matched_records' = <<>>
    /\ Raise("FileNotFoundError")
    /\ UNCHANGED <<variant, nft_holders, holdersColumn, holderValues, lbRows,
                   outFile, outFile0>>

\* mutant: the leaderboard address is looked up as spelled
IsHolderAsIs(address, holders) == address \in holders

\* address in nft_holders, with address = row[...].lower()
IsHolder(address, holders) == Lower(address) \in holders

\* the record appended for a matched row
MatchedRecord(address, amount) == [Address |-> address, Airdrop_Amount |-> amount]

\* mutant: the record is put in front
PrependRecord(records, rec) == <<rec>> \o records

\* matched_records.append(...)
AppendRecord(records, rec) == Append(records, rec)

\* the amounts round(quantity * 0.1, 3) may give
AirdropAmounts(quantity) == Round(quantity)

\* lines 25-34: one pass of the loop over the leaderboard
ReadLeaderboardRow ==
    /\ pc = "read_leaderboard"
    /\ Len(reader.rows) < MaxLbRows
    /\ \E cells \in RowsOf(reader.header, variant, LbAddresses) :
          LET row == DictRow(reader.fieldnames, cells)
              address == Subscript(row, AddressColumn(variant))
              value == Subscript(row, ValueColumn(variant))
              Continue == /\ reader' = Advance(reader, cells)
                          /\ UNCHANGED <<pc, error, openFiles>>
          IN  /\ lbRows' = Append(lbRows, row)
              /\ IF address = KeyError
                 THEN Raise("KeyError") /\ UNCHANGED matched_records
                 ELSE IF address = None
                 THEN Raise("AttributeError") /\ UNCHANGED matched_records
                 ELSE IF ~IsHolder(address, nft_holders)
                 THEN Continue /\ UNCHANGED matched_records
                 ELSE IF value = KeyError
                 THEN Raise("KeyError") /\ UNCHANGED matched_records
                 ELSE IF value = None
                 THEN Raise("TypeError") /\ UNCHANGED matched_records
                 ELSE IF ~IsNumeric(value)
                 THEN Raise("ValueError") /\ UNCHANGED matched_records
                 ELSE /\ Continue
                      /\ \E amount \in AirdropAmounts(ParseFloat(value)) :
                            matched_records' = AppendRecord(matched_records,
                                MatchedRecord(address, amount))
    /\ UNCHANGED <<variant, nft_holders, holdersColumn, holderValues, outFile, outFile0>>

\* lines 25-36: the leaderboard is exhausted, its `with` block ends
CloseLeaderboard ==
    /\ pc = "read_leaderboard"
    /\ reader' = NoReader
    /\ openFiles' = openFiles \ {leaderboard_file}
    /\ pc' = "leaderboard_loaded"
    /\ UNCHANGED <<variant, error, nft_holders, matched_records, holdersColumn,
                   holderValues, lbRows, outFile, outFile0>>

\* line 39: the output file is opened for writing
OpenOutput ==
    /\ pc = "leaderboard_loaded"
    /\ outFile' = Truncated
    /\ openFiles' = openFiles \cup {output_file}
    /\ pc' = "write_header"
    /\ UNCHANGED <<variant, error, reader, nft_holders, matched_records,
                   holdersColumn, holderValues, lbRows, outFile0>>

\* line 39: the output file cannot be created
OpenOutputFails ==
    /\ pc = "leaderboard_loaded"
    /\ Raise("OSError")
    /\ UNCHANGED <<variant, nft_holders, matched_records, holdersColumn,
                   holderValues, lbRows, outFile, outFile0>>

\* lines 40-42: writer.writeheader()
WriteHeader ==
    /\ pc = "write_header"
    /\ outFile' = [outFile EXCEPT !.lines = Append(@, fieldnames)]
    /\ pc' = "write_rows"
    /\ UNCHANGED <<variant, error, openFiles, reader, nft_holders,
                   matched_records, holdersColumn, holderValues, lbRows, outFile0>>

\* the lines writer.writerows(records) adds
WrittenRows(records) == [i \in DOMAIN records |-> RecordLine(records[i])]

\* lines 43-45: writer.writerows(matched_records), and the `with` block ends
WriteRows ==
    /\ pc = "write_rows"
    /\ outFile' = [outFile EXCEPT !.lines = @ \o WrittenRows(matched_records)]
    /\ openFiles' = openFiles \ {output_file}
    /\ pc' = "done"
    /\ UNCHANGED <<variant, error, reader, nft_holders, matched_records,
                   holdersColumn, holderValues, lbRows, outFile0>>

Next ==
    \/ OpenHolders
    \/ OpenHoldersFails
    \/ ReadHolderRow
    \/ CloseHolders
    \/ OpenLeaderboard
    \/ OpenLeaderboardFails
    \/ ReadLeaderboardRow
    \/ CloseLeaderboard
    \/ OpenOutput
    \/ OpenOutputFails
    \/ WriteHeader
    \/ WriteRows

Spec == Init /\ [][Next]_vars

----------------------------------------------------------------------------
(* Vocabulary of the claims *)

AddressOf(row) == row[AddressColumn(variant)]
ValueOf(row) == row[ValueColumn(variant)]

\* the row's address, lower-cased, is in the reference set
InReferenceSet(row) == AddressOf(row) # None /\ Lower(AddressOf(row)) \in nft_holders

\* the row's value column holds a text that is not a number
NonNumeric(row) == ValueOf(row) # None /\ ~IsNumeric(ValueOf(row))

\* the lines of the output file after its header
DataLines == Tail(outFile.lines)

AddressesOf(rows) == [k \in DOMAIN rows |-> AddressOf(rows[k])]

Abs(x) == IF x < 0 THEN -x ELSE x

InputFailures == {"FileNotFoundError", "KeyError", "AttributeError",
                  "TypeError", "ValueError"}

----------------------------------------------------------------------------
\* C1: on a run that succeeds, every address is written once per leaderboard
\* row that carries it when its lower-cased form is in the reference set, and
\* not at all otherwise (no merging, no deduplication).
C1_OneOutputRowPerMatchingRow ==
    pc = "done" =>
        \A a \in Range(AddressesOf(lbRows)) \cup {DataLines[k][1] : k \in DOMAIN DataLines} :
            Cardinality({k \in DOMAIN DataLines : DataLines[k][1] = a})
              = IF Lower(a) \in nft_holders
                THEN Cardinality({i \in DOMAIN lbRows : AddressOf(lbRows[i]) = a})
                ELSE 0

C1_Witness ==
    /\ pc = "done"
    /\ Len(lbRows) = 2
    /\ AddressOf(lbRows[1]) = AddressOf(lbRows[2])
    /\ InReferenceSet(lbRows[1])
    /\ Len(DataLines) = 2

C3_FailedInputLeavesOutputUntouched ==
    (pc = "failed" /\ error \in InputFailures)
        => (outFile = outFile0 /\ output_file \notin openFiles)

C3_Witness ==
    /\ pc = "failed"
    /\ error = "ValueError"
    /\ Len(matched_records) >= 1
    /\ outFile0 = OldContents
    /\ outFile = OldContents

\* the HolderAddress cell the reader gives for a row of the holders file
HolderCell(cells) == Subscript(DictRow(reader.fieldnames, cells), HolderAddress)

\* C4: the reference set is exactly the lower-cased HolderAddress values that
\* are present and non-empty; an empty or missing value adds nothing and
\* raises no error, and the empty string is never a member.
C4_Original ==
    /\ pc = "read_holders" =>
          nft_holders =
            { Lower(HolderCell(reader.rows[j])) :
                j \in { i \in DOMAIN reader.rows :
                          HolderCell(reader.rows[i]) \notin {KeyError, None, <<>>} } }
    /\ <<>> \notin nft_holders
    /\ ~(pc = "failed" /\ error = "AttributeError" /\ lbRows = <<>>)

\* C5: the matched records follow the order of the leaderboard rows they come
\* from, and the output file holds them in that order.
C5_OutputInLeaderboardOrder ==
    /\ pc # "failed" =>
          [k \in DOMAIN matched_records |-> matched_records[k].Address]
            = AddressesOf(SelectSeq(lbRows, InReferenceSet))
    /\ pc = "done" =>
          /\ Len(DataLines) = Len(matched_records)
          /\ \A k \in DOMAIN DataLines :
                DataLines[k] = <<matched_records[k].Address,
                                 FormatFloat(matched_records[k].Airdrop_Amount)>>

C5_Witness ==
    /\ pc = "done"
    /\ Len(matched_records) = 2
    /\ matched_records[1].Address # matched_records[2].Address
    /\ Len(DataLines) = 2

\* some value of the holders file equals the row's address up to letter case
MatchesSomeHolder(row) ==
    \E v \in holderValues : Lower(v) = Lower(AddressOf(row))

\* C6: a leaderboard row matches when its address equals a holder address up
\* to letter case on either side, and the address written is the leaderboard
\* row's own spelling.
C6_CaseInsensitiveMatchKeepsSpelling ==
    pc = "done" =>
        [k \in DOMAIN DataLines |-> DataLines[k][1]]
          = AddressesOf(SelectSeq(lbRows, MatchesSomeHolder))

C6_Witness ==
    /\ pc = "done"
    /\ holderValues = { <<"A">> }
    /\ \E k \in DOMAIN DataLines : DataLines[k][1] = <<"a">>
    /\ \E k \in DOMAIN DataLines : DataLines[k][1] = <<"A">>

\* the reference set the rows read so far give when the file has no
\* byte-order mark
HoldersWithoutBom ==
    { Lower(c) : c \in { Subscript(DictRow(reader.header, reader.rows[j]), HolderAddress) :
                            j \in DOMAIN reader.rows } \ {KeyError, None} }

\* C7: a byte-order mark in front of either input file changes nothing: the
\* reference set and the rows the leaderboard reader yields are those of the
\* same file without the mark.
C7_Original ==
    /\ pc = "read_holders" => nft_holders = HoldersWithoutBom
    /\ pc = "read_leaderboard" =>
          \A j \in DOMAIN reader.rows :
              lbRows[j] = DictRow(reader.header, reader.rows[j])

\* the row has no address: the column is missing or the row is too short
NoAddress(row) ==
    AddressColumn(variant) \notin DOMAIN row \/ AddressOf(row) = None

\* C8 as claimed: a holders file without the HolderAddress column gives an
\* empty reference set, and then no leaderboard makes the run fail; the
\* output file holds the header row alone.
C8_Original ==
    holdersColumn = "absent" =>
        /\ nft_holders = {}
        /\ ~(pc = "failed" /\ error \in {"KeyError", "AttributeError", "TypeError", "ValueError"})
        /\ pc = "done" => outFile.lines = <<fieldnames>>

\* C8 as amended: a holders file without the HolderAddress column gives an
\* empty reference set and no match; the run then fails only when a file
\* cannot be opened or a leaderboard row has no address, and otherwise
\* writes the header row alone.
C8_NoColumnNoMatchNoParse ==
    holdersColumn = "absent" =>
        /\ nft_holders = {}
        /\ matched_records = <<>>
        /\ pc = "failed" =>
              \/ error \in {"FileNotFoundError", "OSError"}
              \/ /\ error \in {"KeyError", "AttributeError"}
                 /\ lbRows # <<>>
                 /\ NoAddress(lbRows[Len(lbRows)])
        /\ pc = "done" => outFile.lines = <<fieldnames>>

C8_Witness ==
    /\ pc = "done"
    /\ holdersColumn = "absent"
    /\ \E i \in DOMAIN lbRows : NonNumeric(lbRows[i])
    /\ outFile.lines = <<fieldnames>>

\* C9: every amount is its own row's value times 0.1 rounded to 3 decimals:
\* a multiple of 0.001 nearest to a tenth of the value; 100 gives 10.0.
C9_AmountIsTenthRounded ==
    pc # "failed" =>
        LET rows == SelectSeq(lbRows, InReferenceSet)
            d == Pow10(InDecimals + 1 - Ndigits)
        IN  /\ Len(rows) = Len(matched_records)
            /\ \A k \in DOMAIN rows :
                  LET m == matched_records[k].Airdrop_Amount
                      t == ValueOf(rows[k])
                  IN  /\ 2 * Abs(m * d - ParseFloat(t)) <= d
                      /\ t = <<"1", "0", "0">> => m = 10 * Pow10(Ndigits)
                      /\ (pc = "done" /\ t = <<"1", "0", "0">>)
                            => DataLines[k][2] = <<"1", "0", ".", "0">>
                      /\ (pc = "done" /\ t = <<"1", "2", ".", "3", "4", "5", "5">>)
                            => DataLines[k][2] = <<"1", ".", "2", "3", "5">>

C9_Witness ==
    /\ pc = "done"
    /\ Len(matched_records) = 2
    /\ ValueOf(lbRows[1]) = <<"1", "2", ".", "3", "4", "5", "5">>
    /\ ValueOf(lbRows[2]) = <<"1", "0", "0">>
    /\ DataLines[1][2] = <<"1", ".", "2", "3", "5">>
    /\ DataLines[2][2] = <<"1", "0", ".", "0">>

\* C10 as claimed: at most one file is open at a time, and no file is open
\* while the join and transform compute the matches.
C10_Original ==
    /\ Cardinality(openFiles) <= 1
    /\ matched_records # <<>> => leaderboard_file \notin openFiles

Rank(p) ==
    CASE p = "start" -> 0
      [] p = "read_holders" -> 1
      [] p = "holders_loaded" -> 2
      [] p = "read_leaderboard" -> 3
      [] p = "leaderboard_loaded" -> 4
      [] p = "write_header" -> 5
      [] p = "write_rows" -> 6
      [] OTHER -> 7

\* the file that is open at each position of the run
C10_Handles ==
    openFiles = CASE pc = "read_holders" -> {nft_holders_file}
                  [] pc = "read_leaderboard" -> {leaderboard_file}
                  [] pc \in {"write_header", "write_rows"} -> {output_file}
                  [] OTHER -> {}

C10_Step ==
    /\ Rank(pc') >= Rank(pc)
    /\ nft_holders' # nft_holders => openFiles = {nft_holders_file}
    /\ matched_records' # matched_records => openFiles = {leaderboard_file}
    /\ outFile' # outFile => output_file \in openFiles \cup openFiles'

\* C10 as amended: the run goes load holders, then read the leaderboard and
\* match and compute row by row while the leaderboard is open, then write;
\* each file is closed before the next is opened, so at most one is open.
C10_OneFileOpenStepsInOrder == [](C10_Handles) /\ [][C10_Step]_vars

C10_Witness ==
    /\ pc = "read_leaderboard"
    /\ matched_records # <<>>
    /\ openFiles = {leaderboard_file}

====
